---- MODULE Spec2Model ----
(***************************************************************************)
(* Model of the two migration scripts                                      *)
(*   src/hipparchus-migration/scripts/migrate.py            ("script 1")   *)
(*   src/migrating-from-Apache-Commons-Math/migrate.py      ("script 2")   *)
(*                                                                         *)
(* Text.  A string is a sequence of characters, each character a TLA+      *)
(* string of length one.  Four longer elements abbreviate a fixed run of   *)
(* characters that the code only ever handles as a whole: the keywords     *)
(* "import" and "static" (letters), the placeholders "${fromprefix}" and   *)
(* "${toprefix}" of the rule file.                                         *)
(* CharLen gives the number of characters each stands for.  A line is its  *)
(* text without the terminating newline: the newline is never an           *)
(* identifier character, so the `$` / `[^A-Za-z0-9_]` alternatives of the  *)
(* patterns treat "end of text" and "newline" alike.                       *)
(* Positions are 0-based, as in Python; s[i+1] is Python's s[i].           *)
(***************************************************************************)
EXTENDS Integers, Sequences, FiniteSets, TLC

VARIABLES
    \* ---- shared
    keyorder,   \* iteration order of the Python dicts (hash order)
    \* ---- processLines on whole files (script 1)
    cfg,        \* which command line and rule file are in force
    lines,      \* the input file: a sequence of lines
    pc,         \* "start" | "once" | "twice"
    found,      \* found_classes of the first run
    out1,       \* processLines(lines)
    out2,       \* processLines(out1)
    \* ---- the substitution in one body line (both scripts)
    nrules,     \* how many rules of the rule file are in effect
    bline,      \* the body line
    spc,        \* "start" | "done"
    sub1,       \* the line as script 1 outputs it
    sub2,       \* the line as script 2 outputs it
    \* ---- processFile (both scripts)
    script,     \* 1 | 2
    dry_run, save, verbose,     \* args.dry_run, args.save, args.verbose
    samefs,     \* the temporary directory is on the file system of the sources
    samestamp,  \* os.stat gives the temporary file the st_mtime of the source
    fs0,        \* the files before the run: path -> content
    fs,         \* the files now: path -> content, or Absent
    todo,       \* the files processFile is still to be called on
    fpc,        \* where processFile stands
    cur,        \* the file processFile is working on
    flines,     \* lines read from the file
    stdout,     \* what was printed
    written,    \* the paths created, replaced or removed so far
    \* ---- main and the rule table loader (script 1)
    rulefile,   \* the lines of the file --classes-subst
    lpc,        \* "start" | "loaded" | "failed"
    table,      \* args.classnames and args.class_substitutions
    nprocessed, \* number of processFile calls made
    \* ---- processDir (both scripts)
    wscript,    \* 1 | 2
    ignore,     \* args.ignore
    tree,       \* the directories under the root, each a path from the root
    pending,    \* the directories os.walk is still to yield, next first
    calls,      \* the processFile calls made, in order
    wpc         \* "walking" | "done" | "error"

varsLines == <<keyorder, cfg, lines, pc, found, out1, out2>>
varsSub   == <<nrules, bline, spc, sub1, sub2>>
varsFile  == <<script, dry_run, save, verbose, samefs, samestamp, fs0, fs, todo, fpc, cur,
               flines, stdout, written>>
varsLoad  == <<rulefile, lpc, table, nprocessed>>
varsWalk  == <<wscript, ignore, tree, pending, calls, wpc>>
vars      == <<varsLines, varsSub, varsFile, varsLoad, varsWalk>>

---------------------------------------------------------------------------
(* Bounds of the model *)
MaxLines == 3

---------------------------------------------------------------------------
(* Python built-ins on strings *)

Min(a, b) == IF a < b THEN a ELSE b
Max(a, b) == IF a > b THEN a ELSE b
SetMin(S) == CHOOSE x \in S : \A y \in S : x <= y

None == <<"None">>

\* s[a:b] for a >= 0; a negative b counts from the end
PySlice(s, a, b) ==
    LET n  == Len(s)
        hi == IF b < 0 THEN Max(n + b, 0) ELSE Min(b, n)
        lo == Min(a, n)
    IN  IF lo < hi THEN SubSeq(s, lo + 1, hi) ELSE <<>>

\* s[a:]
PyFrom(s, a) == PySlice(s, a, Len(s))

\* s[i:i+len(sub)] == sub
StartsAt(s, sub, i) ==
    /\ i >= 0
    /\ i + Len(sub) <= Len(s)
    /\ \A k \in 1..Len(sub) : s[i + k] = sub[k]

\* sub in s
Contains(sub, s) == \E i \in 0..Len(s) : StartsAt(s, sub, i)

\* s.rfind(c)
rfind(s, c) ==
    LET hits == {i \in 0..(Len(s) - 1) : s[i + 1] = c}
    IN  IF hits = {} THEN -1 ELSE CHOOSE i \in hits : \A j \in hits : j <= i

\* s.endswith(suffix)
endswith(s, suffix) == StartsAt(s, suffix, Len(s) - Len(suffix))

---------------------------------------------------------------------------
(* Character classes of the regular expressions *)

Letters == {"A", "B", "C", "D", "f", "g", "t", "p", "q", "z", "import", "static"}

\* [A-Za-z0-9_]
IdentChar(c) == c \in Letters \/ c = "_"

\* [a-zA-Z0-9\.\*]
ImportChar(c) == c \in Letters \/ c \in {".", "*"}

\* \s
IsSpace(c) == c = " "

\* code point order of the characters, for list.sort() on strings
Ord(c) ==
    CASE c = " " -> 32 [] c = "*" -> 42 [] c = "." -> 46 [] c = ";" -> 59
      [] c = "A" -> 65 [] c = "B" -> 66 [] c = "C" -> 67 [] c = "D" -> 68
      [] c = "_" -> 95 [] c = "f" -> 102 [] c = "g" -> 103
      [] c = "import" -> 105 [] c = "p" -> 112 [] c = "q" -> 113
      [] c = "static" -> 115 [] c = "t" -> 116 [] c = "z" -> 122
      [] OTHER -> 0

\* a < b for Python strings
RECURSIVE StrLess(_, _)
StrLess(a, b) ==
    IF b = <<>> THEN FALSE
    ELSE IF a = <<>> THEN TRUE
    ELSE IF Ord(Head(a)) # Ord(Head(b)) THEN Ord(Head(a)) < Ord(Head(b))
    ELSE StrLess(Tail(a), Tail(b))

---------------------------------------------------------------------------
(* The patterns of processLines *)

\* first position >= i that holds no white space (len(line) if none)
SkipSpaces(line, i) ==
    LET rest == {k \in i..(Len(line) - 1) : ~IsSpace(line[k + 1])}
    IN  IF rest = {} THEN Max(i, Len(line)) ELSE SetMin(rest)

\* end of the longest run of [a-zA-Z0-9\.\*] that starts at j
RunEnd(line, j) ==
    LET rest == {k \in j..(Len(line) - 1) : ~ImportChar(line[k + 1])}
    IN  IF rest = {} THEN Max(j, Len(line)) ELSE SetMin(rest)

\* re.match(r'^\s*import\s+([a-zA-Z0-9\.\*]+);', line): group(1), or None
import_pattern(line) ==
    LET i == SkipSpaces(line, 0)
        j == SkipSpaces(line, i + 1)
        e == RunEnd(line, j)
    IN  IF /\ i < Len(line) /\ line[i + 1] = "import"
           /\ j > i + 1
           /\ e > j /\ e < Len(line) /\ line[e + 1] = ";"
        THEN PySlice(line, j, e)
        ELSE None

\* re.match(r'^\s*import\s+static\s+([a-zA-Z0-9\.\*]+);', line): group(1), or None
static_import_pattern(line) ==
    LET i == SkipSpaces(line, 0)
        s == SkipSpaces(line, i + 1)
        j == SkipSpaces(line, s + 1)
        e == RunEnd(line, j)
    IN  IF /\ i < Len(line) /\ line[i + 1] = "import"
           /\ s > i + 1 /\ s < Len(line) /\ line[s + 1] = "static"
           /\ j > s + 1
           /\ e > j /\ e < Len(line) /\ line[e + 1] = ";"
        THEN PySlice(line, j, e)
        ELSE None

NoMatch == <<-1, -1>>

\* the name with any character, or none, after it: the pattern without its
\* closing ([^A-Za-z0-9_]|$)
NameEndUnbounded(line, classname, n0) ==
    IF StartsAt(line, classname, n0)
    THEN Min(n0 + Len(classname) + 1, Len(line))
    ELSE -1

\* classname followed by ([^A-Za-z0-9_]|$), the name starting at n0:
\* the end of the match, or -1
NameEnd(line, classname, n0) ==
    LET e == n0 + Len(classname)
    IN  IF ~StartsAt(line, classname, n0) THEN -1
        ELSE IF e < Len(line) /\ ~IdentChar(line[e + 1]) THEN e + 1
        ELSE IF e = Len(line) THEN e
        ELSE -1

\* '(^|[^A-Za-z0-9_])' + classname + '([^A-Za-z0-9_]|$)' matched with the
\* match starting at s: <<start of the name, end of the match>>, or NoMatch
classname_pattern(line, classname, s) ==
    IF s = 0 /\ NameEnd(line, classname, 0) >= 0
    THEN <<0, NameEnd(line, classname, 0)>>
    ELSE IF /\ s < Len(line) /\ ~IdentChar(line[s + 1])
            /\ NameEnd(line, classname, s + 1) >= 0
    THEN <<s + 1, NameEnd(line, classname, s + 1)>>
    ELSE NoMatch

\* re.search(classname_pattern, line) is not None
re_search(classname, line) ==
    \E s \in 0..Len(line) : classname_pattern(line, classname, s) # NoMatch

\* re.sub(classname_pattern, r'\1' + new_classname + r'\2', line), scanning
\* from pos: leftmost match, replaced, and the scan resumes at its end
RECURSIVE re_sub_from(_, _, _, _)
re_sub_from(line, classname, new_classname, pos) ==
    LET starts == {s \in pos..Len(line) :
                      classname_pattern(line, classname, s) # NoMatch}
    IN  IF starts = {} THEN PyFrom(line, pos)
        ELSE LET m == classname_pattern(line, classname, SetMin(starts))
             IN  PySlice(line, pos, m[1]) \o new_classname
                 \o PySlice(line, m[1] + Len(classname), m[2])
                 \o re_sub_from(line, classname, new_classname, m[2])

re_sub(line, classname, new_classname) ==
    re_sub_from(line, classname, new_classname, 0)

\* re.sub(prefix, to_prefix, line): the prefix is used as a pattern, so its
\* '.' matches any character
RxStartsAt(s, pat, i) ==
    /\ i + Len(pat) <= Len(s)
    /\ \A k \in 1..Len(pat) : pat[k] = "." \/ s[i + k] = pat[k]

RECURSIVE re_sub_prefix(_, _, _, _)
re_sub_prefix(line, prefix, to_prefix, pos) ==
    LET starts == {s \in pos..Len(line) : RxStartsAt(line, prefix, s)}
    IN  IF starts = {} \/ prefix = <<>> THEN PyFrom(line, pos)
        ELSE LET s == SetMin(starts)
             IN  PySlice(line, pos, s) \o to_prefix
                 \o re_sub_prefix(line, prefix, to_prefix, s + Len(prefix))

---------------------------------------------------------------------------
(* Character positions: an element that abbreviates a run of characters    *)
(* counts for its length                                                   *)

FromPlaceholder == "${fromprefix}"
ToPlaceholder == "${toprefix}"

CharLen(c) ==
    CASE c \in {"import", "static"} -> 6
      [] c = FromPlaceholder -> 13
      [] c = ToPlaceholder -> 11
      [] OTHER -> 1

\* len(s)
RECURSIVE CharCount(_)
CharCount(s) == IF s = <<>> THEN 0 ELSE CharLen(Head(s)) + CharCount(Tail(s))

\* s.rfind(c) as a character position
rfindC(s, c) ==
    IF rfind(s, c) < 0 THEN -1 ELSE CharCount(SubSeq(s, 1, rfind(s, c)))

\* s[a:b] with a, b character positions (a >= 0): the elements that lie
\* wholly inside
CharSlice(s, a, b) ==
    LET hi  == IF b < 0 THEN Max(CharCount(s) + b, 0) ELSE b
        idx == {k \in 1..Len(s) :
                   /\ CharCount(SubSeq(s, 1, k - 1)) >= a
                   /\ CharCount(SubSeq(s, 1, k)) <= hi}
    IN  IF idx = {} THEN <<>>
        ELSE SubSeq(s, SetMin(idx), CHOOSE k \in idx : \A j \in idx : j <= k)

---------------------------------------------------------------------------
(* Rule table loader of script 1 *)

\* line.split()
RECURSIVE split(_)
split(line) ==
    LET i == SkipSpaces(line, 0)
    IN  IF i >= Len(line) THEN <<>>
        ELSE LET sp == {k \in i..(Len(line) - 1) : IsSpace(line[k + 1])}
                 e  == IF sp = {} THEN Len(line) ELSE SetMin(sp)
             IN  <<PySlice(line, i, e)>> \o split(PyFrom(line, e))

\* newname.replace('${toprefix}', args.to_prefix)
RECURSIVE replace_toprefix(_, _)
replace_toprefix(newname, to_prefix) ==
    IF newname = <<>> THEN <<>>
    ELSE (IF Head(newname) = ToPlaceholder THEN to_prefix ELSE <<Head(newname)>>)
         \o replace_toprefix(Tail(newname), to_prefix)

\* d[k] = v on a Python dict
DictPut(d, k, v) == [c \in DOMAIN d \cup {k} |-> IF c = k THEN v ELSE d[c]]

EmptyDict == [c \in {} |-> <<>>]

\* the loop over the rule lines, from line i on.  tokens[0] or tokens[1] of a
\* line with fewer than two tokens raises IndexError: error |-> TRUE
RECURSIVE parseRulesFrom(_, _, _, _, _)
parseRulesFrom(rule_lines, to_prefix, i, classnames, class_substitutions) ==
    IF i > Len(rule_lines)
    THEN [error |-> FALSE, classnames |-> classnames,
          class_substitutions |-> class_substitutions]
    ELSE LET tokens == split(rule_lines[i])
         IN  IF Len(tokens) < 2
             THEN [error |-> TRUE, classnames |-> classnames,
                   class_substitutions |-> class_substitutions]
             ELSE LET oldname    == tokens[1]
                      newname    == tokens[2]
                      index      == rfindC(oldname, ".")
                      classname  == CharSlice(oldname, index + 1, CharCount(oldname))
                      subpackage == CharSlice(oldname, CharLen(FromPlaceholder) + 1,
                                              rfindC(oldname, "."))
                  IN  parseRulesFrom(rule_lines, to_prefix, i + 1,
                          DictPut(classnames, classname, subpackage),
                          DictPut(class_substitutions, classname,
                                  replace_toprefix(newname, to_prefix)))

parseClassSubstitutionRules(rule_lines, to_prefix) ==
    parseRulesFrom(rule_lines, to_prefix, 1, EmptyDict, EmptyDict)

---------------------------------------------------------------------------
(* processLines of script 1 *)

\* the keys of dict d in iteration order
DictKeys(d, order) == SelectSeq(order, LAMBDA k : k \in DOMAIN d)

containsAnyFromPrefix(line, args) ==
    \E k \in 1..Len(args.from_prefix) : Contains(args.from_prefix[k], line)

prefixLength(str, args) ==
    LET hits == {k \in 1..Len(args.from_prefix) : Contains(args.from_prefix[k], str)}
    IN  IF hits = {} THEN -1 ELSE CharCount(args.from_prefix[SetMin(hits)])

\* subst[subst.rfind('.')+1:]
NewClassname(subst) == CharSlice(subst, rfindC(subst, ".") + 1, CharCount(subst))

\* the classes of a body line with no regard for the imported subpackages
FoundInLineUngated(line, args, imported_subpackages) ==
    {classname \in DOMAIN args.classnames :
        /\ Contains(classname, line)
        /\ re_search(classname, line)}

\* the classes a body line adds to found_classes
FoundInLine(line, args, imported_subpackages) ==
    {classname \in DOMAIN args.classnames :
        /\ args.classnames[classname] \in imported_subpackages
        /\ Contains(classname, line)
        /\ re_search(classname, line)}

\* first loop, from line i on
RECURSIVE Pass1(_, _, _, _, _)
Pass1(ls, args, i, imported_subpackages, found_classes) ==
    IF i > Len(ls)
    THEN [imported_subpackages |-> imported_subpackages,
          found_classes |-> found_classes]
    ELSE LET line == ls[i]
             m    == import_pattern(line)
         IN  IF m = None
             THEN IF static_import_pattern(line) # None
                  THEN Pass1(ls, args, i + 1, imported_subpackages, found_classes)
                  ELSE LET hits == FoundInLine(line, args, imported_subpackages)
                       IN  Pass1(ls, args, i + 1, imported_subpackages,
                               [c \in DOMAIN found_classes \cup hits |->
                                   IF c \in hits
                                   THEN NewClassname(args.class_substitutions[c])
                                   ELSE found_classes[c]])
             ELSE LET prefix_len == prefixLength(m, args)
                  IN  IF prefix_len > 0
                      THEN Pass1(ls, args, i + 1,
                               imported_subpackages \cup
                                   {CharSlice(m, prefix_len + 1, rfindC(m, "."))},
                               found_classes)
                      ELSE Pass1(ls, args, i + 1, imported_subpackages, found_classes)

\* imports.sort(): insertion of x into a sorted list
RECURSIVE SortedInsert(_, _)
SortedInsert(sorted, x) ==
    IF sorted = <<>> THEN <<x>>
    ELSE IF StrLess(x, Head(sorted)) THEN <<x>> \o sorted
    ELSE <<Head(sorted)>> \o SortedInsert(Tail(sorted), x)

RECURSIVE Sort(_)
Sort(list) ==
    IF list = <<>> THEN <<>>
    ELSE SortedInsert(Sort(SubSeq(list, 1, Len(list) - 1)), list[Len(list)])

ImportLine(name) == <<"import", " ">> \o name \o <<";">>

\* the import lines in the iteration order of found_classes, not sorted
addImportsUnsorted(found_classes, args, order) ==
    LET keys == DictKeys(found_classes, order)
    IN  [k \in 1..Len(keys) |-> ImportLine(args.class_substitutions[keys[k]])]

addImports(found_classes, args, order) ==
    LET keys    == DictKeys(found_classes, order)
        imports == [k \in 1..Len(keys) |->
                       ImportLine(args.class_substitutions[keys[k]])]
    IN  Sort(imports)

\* the loop over args.from_prefix on a static import line
RECURSIVE SubstPrefixes(_, _, _)
SubstPrefixes(line, prefixes, to_prefix) ==
    IF prefixes = <<>> THEN line
    ELSE SubstPrefixes(
             IF Contains(Head(prefixes), line)
             THEN re_sub_prefix(line, Head(prefixes), to_prefix, 0)
             ELSE line,
             Tail(prefixes), to_prefix)

\* the loop over found_classes on a body line, keys in iteration order
RECURSIVE SubstClasses(_, _, _)
SubstClasses(line, keys, found_classes) ==
    IF keys = <<>> THEN line
    ELSE SubstClasses(
             IF Contains(Head(keys), line)
             THEN re_sub(line, Head(keys), found_classes[Head(keys)])
             ELSE line,
             Tail(keys), found_classes)

\* second loop, from line i on
RECURSIVE Pass2(_, _, _, _, _, _)
Pass2(ls, args, order, found_classes, i, first_import) ==
    IF i > Len(ls) THEN <<>>
    ELSE LET line == ls[i]
         IN  IF import_pattern(line) # None
             THEN (IF first_import THEN addImports(found_classes, args, order)
                   ELSE <<>>)
                  \o (IF /\ ~containsAnyFromPrefix(line, args)
                         /\ ~Contains(args.to_prefix, line)
                      THEN <<line>> ELSE <<>>)
                  \o Pass2(ls, args, order, found_classes, i + 1, FALSE)
             ELSE IF static_import_pattern(line) # None
             THEN <<IF /\ containsAnyFromPrefix(line, args)
                       /\ ~Contains(args.to_prefix, line)
                    THEN SubstPrefixes(line, args.from_prefix, args.to_prefix)
                    ELSE line>>
                  \o Pass2(ls, args, order, found_classes, i + 1, first_import)
             ELSE <<SubstClasses(line, DictKeys(found_classes, order), found_classes)>>
                  \o Pass2(ls, args, order, found_classes, i + 1, first_import)

\* found_classes at the end of the first loop
FoundClasses(ls, args) == Pass1(ls, args, 1, {}, EmptyDict).found_classes

\* the two loops without the early return between them
processLinesNoShortCircuit(ls, args, order) ==
    Pass2(ls, args, order, FoundClasses(ls, args), 1, TRUE)

processLines(ls, args, order) ==
    LET found_classes == FoundClasses(ls, args)
    IN  IF DOMAIN found_classes = {} THEN ls
        ELSE Pass2(ls, args, order, found_classes, 1, TRUE)

---------------------------------------------------------------------------
(* Command lines and rule files *)

\* --from-prefix: a list of two prefixes, as the default of script 1
FromPrefix == << <<"f">>, <<"g">> >>

\* configuration 1 migrates from the namespaces f, g to the namespace t;
\* configuration 2 is run with --to-prefix f and renames classes inside f
Configs == {1, 2}

ToPrefix(c) == IF c = 1 THEN <<"t">> ELSE <<"f">>

\* the lines of the file --classes-subst
RuleFile(c) ==
    IF c = 1
    THEN << <<FromPlaceholder, ".", "p", ".", "A", " ", ToPlaceholder, ".", "p", ".", "D">>,
            <<FromPlaceholder, ".", "q", ".", "B", " ", ToPlaceholder, ".", "q", ".", "C">> >>
    ELSE << <<FromPlaceholder, ".", "p", ".", "A", " ", ToPlaceholder, ".", "p", ".", "B">>,
            <<FromPlaceholder, ".", "p", ".", "B", " ", ToPlaceholder, ".", "p", ".", "C">> >>

\* args after parse_args() and parseClassSubstitutionRules(args)
Args(c) ==
    LET r == parseClassSubstitutionRules(RuleFile(c), ToPrefix(c))
    IN  [from_prefix |-> FromPrefix, to_prefix |-> ToPrefix(c),
         classnames |-> r.classnames,
         class_substitutions |-> r.class_substitutions]

\* the orders in which a dict keyed by the class names can iterate
KeyOrders == { << <<"A">>, <<"B">> >>, << <<"B">>, <<"A">> >> }

---------------------------------------------------------------------------
(* Each specification below runs one part of the program; the variables of *)
(* the other parts rest at these values                                    *)

Absent == <<"absent">>

IdleLines ==
    /\ cfg = 1 /\ lines = <<>> /\ pc = "idle" /\ found = <<>>
    /\ out1 = <<>> /\ out2 = <<>>

IdleSub ==
    /\ nrules = 0 /\ bline = <<>> /\ spc = "idle" /\ sub1 = <<>> /\ sub2 = <<>>

IdleFile ==
    /\ script = 1 /\ dry_run = FALSE /\ save = FALSE /\ verbose = FALSE
    /\ samefs = TRUE /\ samestamp = FALSE /\ fs0 = <<>> /\ fs = <<>> /\ todo = <<>> /\ fpc = "idle"
    /\ cur = 0 /\ flines = <<>> /\ stdout = <<>> /\ written = {}

IdleLoad ==
    /\ rulefile = <<>> /\ lpc = "idle" /\ table = <<>> /\ nprocessed = 0

IdleWalk ==
    /\ wscript = 1 /\ ignore = <<>> /\ tree = {} /\ pending = <<>>
    /\ calls = <<>> /\ wpc = "idle"

---------------------------------------------------------------------------
(* Specification SpecLines: processLines applied to a file, and again to   *)
(* its own output                                                          *)

LineSet ==
    { ImportLine(<<"f", ".", "p", ".", "A">>),
      ImportLine(<<"g", ".", "q", ".", "*">>),
      ImportLine(<<"z", "f", "p", ".", "A">>),
      ImportLine(<<"z", ".", "z">>),
      ImportLine(<<"t", ".", "p", ".", "D">>),
      <<"import", " ", "static", " ", "f", ".", "p", ".", "A", ";">>,
      <<"A">>,
      <<"A", " ", "A">>,
      <<"B">>,
      <<"A", "_">>,
      <<"A", ".", "B">>,
      <<"z">> }

Files == UNION {[1..n -> LineSet] : n \in 0..MaxLines}

StartLines ==
    /\ cfg \in Configs
    /\ keyorder \in KeyOrders
    /\ lines \in Files
    /\ pc = "start"
    /\ found = EmptyDict
    /\ out1 = <<>>
    /\ out2 = <<>>

InitLines == StartLines /\ IdleSub /\ IdleFile /\ IdleLoad /\ IdleWalk

RunOnce ==
    /\ pc = "start"
    /\ found' = FoundClasses(lines, Args(cfg))
    /\ out1' = processLines(lines, Args(cfg), keyorder)
    /\ pc' = "once"
    /\ UNCHANGED <<cfg, keyorder, lines, out2>>
    /\ UNCHANGED <<varsSub, varsFile, varsLoad, varsWalk>>

RunAgain ==
    /\ pc = "once"
    /\ out2' = processLines(out1, Args(cfg), keyorder)
    /\ pc' = "twice"
    /\ UNCHANGED <<cfg, keyorder, lines, found, out1>>
    /\ UNCHANGED <<varsSub, varsFile, varsLoad, varsWalk>>

NextLines == RunOnce \/ RunAgain

SpecLines == InitLines /\ [][NextLines]_vars

---------------------------------------------------------------------------
(* Properties of processLines (SpecLines) *)

IsImportLine(line) == import_pattern(line) # None

IsBodyLine(line) == import_pattern(line) = None /\ static_import_pattern(line) = None

ImportLinesOf(ls) == SelectSeq(ls, IsImportLine)

NonImportLinesOf(ls) == SelectSeq(ls, LAMBDA l : ~IsImportLine(l))

\* no import-statement line of ls names an identifier that contains a from-prefix
NoFromImport(ls) ==
    \A i \in 1..Len(ls) :
        IsImportLine(ls[i]) =>
            \A k \in 1..Len(FromPrefix) : ~Contains(FromPrefix[k], import_pattern(ls[i]))

\* C1 as stated: a second run of processLines on the output of the first
\* changes nothing, for every file, rule table and prefix configuration.
C1_Idempotent == pc = "twice" => out2 = out1

\* C1 amended: a second run of processLines on the output of the first changes
\* nothing whenever that output holds no import-statement line whose
\* identifier contains a from-prefix.
C1_IdempotentOnceMigrated ==
    (pc = "twice" /\ NoFromImport(out1)) => out2 = out1

\* a file the first run rewrote, with no from-prefix import left, run again
C1_Witness ==
    /\ pc = "twice"
    /\ out1 # lines
    /\ NoFromImport(out1)
    /\ \E i \in 1..Len(out1) : IsImportLine(out1[i])

\* the identifier m of an import line lies under a from-prefix, and the text
\* between that prefix and its final segment is root
UnderFromPrefix(m, root) ==
    \E k \in 1..Len(FromPrefix) :
        LET pre == FromPrefix[k]
        IN  /\ StartsAt(m, pre \o <<".">>, 0)
            /\ rfind(m, ".") >= Len(pre)
            /\ PySlice(m, Len(pre) + 1, rfind(m, ".")) = root

\* the identifier m of an import line contains a from-prefix anywhere, and
\* its text from position len(prefix)+1 to its last '.' is root, the prefix
\* being the first of the configured ones that m contains
ContainsFromPrefix(m, root) ==
    \E k \in 1..Len(FromPrefix) :
        /\ Contains(FromPrefix[k], m)
        /\ \A j \in 1..(k - 1) : ~Contains(FromPrefix[j], m)
        /\ CharSlice(m, CharCount(FromPrefix[k]) + 1, rfindC(m, ".")) = root

GateLine(ls, root) ==
    \E i \in 1..Len(ls) :
        IsImportLine(ls[i]) /\ ContainsFromPrefix(import_pattern(ls[i]), root)

\* the line that the output holds for the non-import line i of the input
OutputOf(i) ==
    NonImportLinesOf(out1)[Len(NonImportLinesOf(SubSeq(lines, 1, i)))]

SortedImportsOf(seq, found_classes, args) ==
    /\ Len(seq) = Cardinality(DOMAIN found_classes)
    /\ \E f \in [1..Len(seq) -> DOMAIN found_classes] :
          /\ \A c \in DOMAIN found_classes : \E k \in 1..Len(seq) : f[k] = c
          /\ \A k \in 1..Len(seq) :
                seq[k] = <<"import", " ">> \o args.class_substitutions[f[k]] \o <<";">>
    /\ \A k \in 1..(Len(seq) - 1) : ~StrLess(seq[k + 1], seq[k])

KeptImportsOf(ls, args) ==
    SelectSeq(ImportLinesOf(ls),
              LAMBDA l : /\ \A k \in 1..Len(args.from_prefix) :
                                ~Contains(args.from_prefix[k], l)
                         /\ ~Contains(args.to_prefix, l))

FirstImport(ls) == SetMin({i \in 1..Len(ls) : IsImportLine(ls[i])})

\* C4: when found_classes is not empty the import-statement lines of the
\* output are one line per found class for its replacement target, sorted,
\* placed where the first import-statement line of the input was, followed by
\* the input's import lines that contain neither a from-prefix nor the
\* to-prefix, unchanged and in order; the other import lines are gone.
C4_ImportBlock ==
    (pc # "start" /\ DOMAIN found # {}) =>
        LET n    == Cardinality(DOMAIN found)
            imps == ImportLinesOf(out1)
            kept == KeptImportsOf(lines, Args(cfg))
            p    == FirstImport(lines)
        IN  /\ Len(imps) = n + Len(kept)
            /\ SortedImportsOf(SubSeq(imps, 1, n), found, Args(cfg))
            /\ SubSeq(imps, n + 1, Len(imps)) = kept
            /\ SubSeq(out1, p, p + n - 1) = SubSeq(imps, 1, n)
            /\ \A i \in 1..(p - 1) : ~IsImportLine(out1[i])

\* two classes found, an unrelated import kept behind the inserted ones and a
\* from-prefix import dropped
C4_Witness ==
    /\ pc = "once"
    /\ Cardinality(DOMAIN found) = 2
    /\ KeptImportsOf(lines, Args(cfg)) # <<>>
    /\ Len(ImportLinesOf(lines)) > Len(KeptImportsOf(lines, Args(cfg)))

---------------------------------------------------------------------------
(* Script 2: the class rules and classesReplace *)

\* end of the longest run of [A-Za-z0-9_] that starts at j
IdentRunEnd(line, j) ==
    LET rest == {k \in j..(Len(line) - 1) : ~IdentChar(line[k + 1])}
    IN  IF rest = {} THEN Max(j, Len(line)) ELSE SetMin(rest)

\* one rule line of parseClassSubstitutionRules:
\*   re.sub(r'^\s*([A-Za-z_][A-Za-z0-9_]*)\s*([A-Za-z_][A-Za-z0-9_]*)\s*$', ...)
\* <<old, new>> when the line matches (the pattern that is appended then is
\* (^|[^A-Za-z0-9_])old([^A-Za-z0-9_]|$) with the replacement \1new\2), None
\* when it does not.  With no white space between them the two names are
\* the run less its last character, and that character.
ClassRule(line) ==
    LET i == SkipSpaces(line, 0)
        r == IdentRunEnd(line, i)
        j == SkipSpaces(line, r)
        e == IdentRunEnd(line, j)
    IN  IF r > i /\ j > r /\ e > j /\ SkipSpaces(line, e) >= Len(line)
        THEN <<PySlice(line, i, r), PySlice(line, j, e)>>
        ELSE IF r > i + 1 /\ j >= Len(line)
        THEN <<PySlice(line, i, r - 1), PySlice(line, r - 1, r)>>
        ELSE None

\* args.classes_subst_pattern after parseClassSubstitutionRules
RECURSIVE classes_subst_pattern(_)
classes_subst_pattern(rule_lines) ==
    IF rule_lines = <<>> THEN <<>>
    ELSE (IF ClassRule(Head(rule_lines)) # None
          THEN <<ClassRule(Head(rule_lines))>> ELSE <<>>)
         \o classes_subst_pattern(Tail(rule_lines))

RECURSIVE classesReplace(_, _)
classesReplace(line, patterns) ==
    IF patterns = <<>> THEN line
    ELSE classesReplace(re_sub(line, Head(patterns)[1], Head(patterns)[2]),
                        Tail(patterns))

\* the file --classes-subst of script 2 that states the rules of RuleFile(1)
ClassesFile == << <<"A", " ", "D">>, <<" ", "B", " ", " ", "C">> >>

---------------------------------------------------------------------------
(* Specification SpecSub: one body line, rewritten by each script under    *)
(* the first nrules rules of configuration 1                               *)

MaxBody == 4

BodyChars == {"A", "B", "_", " "}

BodyLines == UNION {[1..n -> BodyChars] : n \in 0..MaxBody}

\* the imports that put the first n rules in effect
ImportsFor(n) ==
    SubSeq(<<ImportLine(<<"f", ".", "p", ".", "A">>),
             ImportLine(<<"g", ".", "q", ".", "*">>)>>, 1, n)

StartSub ==
    /\ nrules \in {1, 2}
    /\ bline \in BodyLines
    /\ keyorder \in KeyOrders
    /\ spc = "start"
    /\ sub1 = <<>>
    /\ sub2 = <<>>

InitSub ==
    /\ StartSub
    /\ IdleLines /\ IdleFile /\ IdleLoad /\ IdleWalk

\* script 1: processLines on the imports followed by the body line
SubstituteBody ==
    /\ spc = "start"
    /\ LET out == processLines(ImportsFor(nrules) \o <<bline>>, Args(1), keyorder)
       IN  sub1' = out[Len(out)]
    /\ sub2' = classesReplace(bline, classes_subst_pattern(SubSeq(ClassesFile, 1, nrules)))
    /\ spc' = "done"
    /\ UNCHANGED <<nrules, bline>>
    /\ UNCHANGED <<varsLines, varsFile, varsLoad, varsWalk>>

NextSub == SubstituteBody

SpecSub == InitSub /\ [][NextSub]_vars

\* the occurrence of name that starts at position n0 of line has a
\* non-identifier character or a line edge on each side
BoundarySafeAt(line, name, n0) ==
    /\ StartsAt(line, name, n0)
    /\ (n0 = 0 \/ ~IdentChar(line[n0]))
    /\ (n0 + Len(name) = Len(line) \/ ~IdentChar(line[n0 + Len(name) + 1]))

SafePositions(line, name) ==
    {n0 \in 0..Len(line) : BoundarySafeAt(line, name, n0)}

\* line with the occurrence of old at n0 replaced by new, the rest kept
ReplacedAt(line, old, new, n0) ==
    PySlice(line, 0, n0) \o new \o PyFrom(line, n0 + Len(old))

\* the rules in effect: old simple name -> new simple name
RulesInEffect == IF nrules = 1 THEN (<<"A">> :> <<"D">>)
                 ELSE (<<"A">> :> <<"D">> @@ <<"B">> :> <<"C">>)

C7_AllOccurrencesReplaced ==
    spc = "done" =>
        \A old \in DOMAIN RulesInEffect :
            (/\ SafePositions(bline, old) # {}
             /\ \A other \in DOMAIN RulesInEffect \ {old} :
                    RulesInEffect[old] # other)
            => SafePositions(sub1, old) = {}

---------------------------------------------------------------------------
(* processFile (both scripts), one file-system operation per step *)

MaxFiles == 2

SourceFiles == 1..MaxFiles

\* the path of source file f, file + '.orig', and
\* os.path.join(args.tempdir, os.path.basename(file))
Src(f) == <<"src", f>>
Orig(f) == <<"orig", f>>
Tmp(f) == <<"tmp", f>>

Paths == {Src(f) : f \in SourceFiles} \cup {Orig(f) : f \in SourceFiles}
         \cup {Tmp(f) : f \in SourceFiles}

\* args.packages_subst_pattern of script 2 for the rule line  "f" "t"
packages_subst_pattern == << << <<"f">>, <<"t">> >> >>

RECURSIVE packageReplace(_, _)
packageReplace(line, patterns) ==
    IF patterns = <<>> THEN line
    ELSE packageReplace(re_sub_prefix(line, Head(patterns)[1], Head(patterns)[2], 0),
                        Tail(patterns))

\* the lines processFile writes to the temporary file
Rewrite(sc, content, order) ==
    IF sc = 1 THEN processLines(content, Args(1), order)
    ELSE [i \in 1..Len(content) |->
             classesReplace(packageReplace(content[i], packages_subst_pattern),
                            classes_subst_pattern(ClassesFile))]

\* st_size of a file with these lines, each ended by a newline
RECURSIVE Size(_)
Size(content) ==
    IF content = <<>> THEN 0
    ELSE CharCount(Head(content)) + 1 + Size(Tail(content))

\* every file taken as changed
FilesDifferAlways(a, b, same_mtime) == TRUE

\* filecmp.cmp(file, tmpfile) == False.  The comparison is shallow: two
\* regular files with the same os.stat signature (st_size, st_mtime) are
\* taken as equal with no look at their content; with different sizes they
\* differ; otherwise the contents are compared.
FilesDiffer(a, b, same_mtime) ==
    IF same_mtime /\ Size(a) = Size(b) THEN FALSE
    ELSE IF Size(a) # Size(b) THEN TRUE
    ELSE a # b

\* log(msg, args)
Log(out, msg, verb) == IF verb THEN Append(out, msg) ELSE out

\* where processFile goes once the files differ
AfterChanged(dry, sv) ==
    IF dry THEN "remove" ELSE IF sv THEN "backup" ELSE "move"

Samples ==
    { << ImportLine(<<"f", ".", "p", ".", "A">>), <<"A", " ", "z">> >>,
      << ImportLine(<<"z", ".", "z">>), <<"z">> >>,
      << <<"A">> >> }

StartFile ==
    /\ script \in {1, 2}
    /\ dry_run \in BOOLEAN /\ save \in BOOLEAN /\ verbose \in BOOLEAN
    /\ samefs \in BOOLEAN
    /\ samestamp \in BOOLEAN
    /\ keyorder \in KeyOrders
    /\ fs0 \in [SourceFiles -> Samples]
    /\ fs = [p \in Paths |-> IF p[1] = "src" THEN fs0[p[2]] ELSE Absent]
    /\ todo = [i \in 1..MaxFiles |-> i]
    /\ fpc = "idle"
    /\ cur = 0
    /\ flines = <<>>
    /\ stdout = <<>>
    /\ written = {}

InitFile == StartFile /\ IdleLines /\ IdleSub /\ IdleLoad /\ IdleWalk

frameFile == <<keyorder, varsLines, varsSub, varsLoad, varsWalk,
               script, dry_run, save, verbose, samefs, samestamp, fs0>>

\* processFile(file, args) is called: log('processing file ' + file)
Begin ==
    /\ fpc = "idle" /\ todo # <<>>
    /\ cur' = Head(todo)
    /\ todo' = Tail(todo)
    /\ stdout' = Log(stdout, <<"processing file", Head(todo)>>, verbose)
    /\ fpc' = "read"
    /\ UNCHANGED <<fs, flines, written, frameFile>>

\* with open(file, 'r') as sources: lines = sources.readlines()
ReadFile ==
    /\ fpc = "read"
    /\ flines' = fs[Src(cur)]
    /\ fpc' = "write"
    /\ UNCHANGED <<fs, todo, cur, stdout, written, frameFile>>

\* the rewritten lines go to the temporary file
WriteTmp ==
    /\ fpc = "write"
    /\ fs' = [fs EXCEPT ![Tmp(cur)] = Rewrite(script, flines, keyorder)]
    /\ written' = written \cup {Tmp(cur)}
    /\ fpc' = "cmp"
    /\ UNCHANGED <<todo, cur, flines, stdout, frameFile>>

\* if filecmp.cmp(file, tmpfile) == False: ... else: log('-> unchanged')
Compare ==
    /\ fpc = "cmp"
    /\ IF FilesDiffer(fs[Src(cur)], fs[Tmp(cur)], samestamp)
       THEN /\ stdout' = LET o == Log(stdout, <<"-> changed", cur>>, verbose)
                         IN  IF dry_run /\ ~verbose
                             THEN Append(o, <<"print file", cur>>) ELSE o
            /\ fpc' = AfterChanged(dry_run, save)
       ELSE /\ stdout' = Log(stdout, <<"-> unchanged", cur>>, verbose)
            /\ fpc' = "idle"
    /\ UNCHANGED <<fs, todo, cur, flines, written, frameFile>>

\* os.remove(tmpfile)
RemoveTmp ==
    /\ fpc = "remove"
    /\ fs' = [fs EXCEPT ![Tmp(cur)] = Absent]
    /\ written' = written \cup {Tmp(cur)}
    /\ fpc' = "idle"
    /\ UNCHANGED <<todo, cur, flines, stdout, frameFile>>

\* shutil.move(file, file + '.orig'): a rename inside the directory
Backup ==
    /\ fpc = "backup"
    /\ fs' = [fs EXCEPT ![Orig(cur)] = fs[Src(cur)], ![Src(cur)] = Absent]
    /\ written' = written \cup {Src(cur), Orig(cur)}
    /\ fpc' = "move"
    /\ UNCHANGED <<todo, cur, flines, stdout, frameFile>>

\* shutil.move(tmpfile, file) on one file system: os.rename
MoveRename ==
    /\ fpc = "move" /\ samefs
    /\ fs' = [fs EXCEPT ![Src(cur)] = fs[Tmp(cur)], ![Tmp(cur)] = Absent]
    /\ written' = written \cup {Src(cur), Tmp(cur)}
    /\ fpc' = "idle"
    /\ UNCHANGED <<todo, cur, flines, stdout, frameFile>>

\* shutil.move(tmpfile, file) across file systems: os.rename fails, copy2
\* opens the destination for writing
MoveCopyOpen ==
    /\ fpc = "move" /\ ~samefs
    /\ fs' = [fs EXCEPT ![Src(cur)] = <<>>]
    /\ written' = written \cup {Src(cur)}
    /\ fpc' = "copy"
    /\ UNCHANGED <<todo, cur, flines, stdout, frameFile>>

\* copy2 writes the next piece of the temporary file to the destination
MoveCopyData ==
    /\ fpc = "copy"
    /\ Len(fs[Src(cur)]) < Len(fs[Tmp(cur)])
    /\ fs' = [fs EXCEPT ![Src(cur)] =
                  SubSeq(fs[Tmp(cur)], 1, Len(fs[Src(cur)]) + 1)]
    /\ UNCHANGED <<todo, cur, flines, stdout, written, fpc, frameFile>>

\* the copy is complete: os.unlink(src)
MoveUnlink ==
    /\ fpc = "copy"
    /\ Len(fs[Src(cur)]) = Len(fs[Tmp(cur)])
    /\ fs' = [fs EXCEPT ![Tmp(cur)] = Absent]
    /\ written' = written \cup {Tmp(cur)}
    /\ fpc' = "idle"
    /\ UNCHANGED <<todo, cur, flines, stdout, frameFile>>

NextFile ==
    \/ Begin \/ ReadFile \/ WriteTmp \/ Compare \/ RemoveTmp \/ Backup
    \/ MoveRename \/ MoveCopyOpen \/ MoveCopyData \/ MoveUnlink

SpecFile == InitFile /\ [][NextFile]_vars

---------------------------------------------------------------------------
(* Properties of processFile (SpecFile) *)

\* processFile has returned for file f
Done(f) ==
    /\ \A i \in 1..Len(todo) : todo[i] # f
    /\ (cur # f \/ fpc = "idle")

Printed(msg) == \E i \in 1..Len(stdout) : stdout[i] = msg

\* C5: a file in which pass 1 finds no class is returned unchanged by
\* processLines and reported unchanged by processFile, and neither the file
\* nor a '.orig' backup is written, whatever dry_run and save are.
C5_NoOpShortCircuit ==
    script = 1 =>
        \A f \in SourceFiles :
            DOMAIN FoundClasses(fs0[f], Args(1)) = {} =>
                /\ fs[Src(f)] = fs0[f]
                /\ fs[Orig(f)] = Absent
                /\ Src(f) \notin written /\ Orig(f) \notin written
                /\ ~Printed(<<"-> changed", f>>) /\ ~Printed(<<"print file", f>>)
                /\ (Done(f) \/ (cur = f /\ fpc \notin {"read", "write"})) =>
                      /\ fs[Tmp(f)] = fs0[f]
                      /\ (Done(f) /\ verbose) => Printed(<<"-> unchanged", f>>)

\* processFile is through with a file that uses a class it does not import
C5_Witness ==
    /\ script = 1 /\ verbose /\ ~dry_run /\ save
    /\ todo = <<>> /\ fpc = "idle"
    /\ \E f \in SourceFiles :
          /\ DOMAIN FoundClasses(fs0[f], Args(1)) = {}
          /\ \E i \in 1..Len(fs0[f]) : Contains(<<"A">>, fs0[f][i])
          /\ Printed(<<"-> unchanged", f>>)

\* C6: with dry_run no source file changes and no '.orig' file appears,
\* whatever the rewrite would change and whatever save and verbose are, and
\* every file whose rewritten content differs is reported: its path printed,
\* or '-> changed' logged when verbose.  For both scripts.
C6_DryRunNonMutation ==
    dry_run =>
        \A f \in SourceFiles :
            /\ fs[Src(f)] = fs0[f]
            /\ fs[Orig(f)] = Absent
            /\ Src(f) \notin written /\ Orig(f) \notin written
            /\ (Done(f) /\ Rewrite(script, fs0[f], keyorder) # fs0[f]) =>
                  IF verbose THEN Printed(<<"-> changed", f>>)
                  ELSE Printed(<<"print file", f>>)

\* C8: at every point between two file-system operations the file at its
\* original path exists and holds the complete original or the complete
\* rewritten content; when processFile has returned for a file it found
\* changed, with backups enabled, '<path>.orig' holds the original content
\* and the path the rewritten content.
C8_CrashSafeWriteBack ==
    \A f \in SourceFiles :
        /\ fs[Src(f)] \in {fs0[f], Rewrite(script, fs0[f], keyorder)}
        /\ ( /\ Done(f) /\ save /\ ~dry_run
             /\ FilesDiffer(fs0[f], Rewrite(script, fs0[f], keyorder), samestamp) )
           => /\ fs[Orig(f)] = fs0[f]
              /\ fs[Src(f)] = Rewrite(script, fs0[f], keyorder)

---------------------------------------------------------------------------
(* Specification SpecLoad: main of script 1, from the rule file to the     *)
(* calls of processFile                                                    *)

MaxRules == 3

RuleLines ==
    { <<>>,
      <<" ">>,
      <<FromPlaceholder, ".", "p", ".", "A">>,
      RuleFile(1)[1],
      RuleFile(1)[2],
      RuleFile(1)[1] \o <<" ", "z">> }

StartLoad ==
    /\ rulefile \in UNION {[1..n -> RuleLines] : n \in 0..MaxRules}
    /\ lpc = "start"
    /\ table = <<>>
    /\ nprocessed = 0

InitLoad == StartLoad /\ keyorder = <<>> /\ IdleLines /\ IdleSub /\ IdleFile /\ IdleWalk

\* parseClassSubstitutionRules(args): an IndexError ends the program
LoadRules ==
    /\ lpc = "start"
    /\ LET r == parseClassSubstitutionRules(rulefile, ToPrefix(1))
       IN  IF r.error
           THEN lpc' = "failed" /\ table' = <<>>
           ELSE /\ lpc' = "loaded"
                /\ table' = [classnames |-> r.classnames,
                             class_substitutions |-> r.class_substitutions]
    /\ UNCHANGED <<rulefile, nprocessed>>
    /\ UNCHANGED <<keyorder, varsLines, varsSub, varsFile, varsWalk>>

\* for dir in args.dir: processDir(dir, args), one processFile call at a time
ProcessNextFile ==
    /\ lpc = "loaded"
    /\ nprocessed < MaxFiles
    /\ nprocessed' = nprocessed + 1
    /\ UNCHANGED <<rulefile, lpc, table>>
    /\ UNCHANGED <<keyorder, varsLines, varsSub, varsFile, varsWalk>>

NextLoad == LoadRules \/ ProcessNextFile

SpecLoad == InitLoad /\ [][NextLoad]_vars

\* some line of the rule file is not made of exactly two tokens
Malformed(rule_lines) ==
    \E i \in 1..Len(rule_lines) : Len(split(rule_lines[i])) # 2

\* C9: a rule file with a line that is not made of exactly two
\* white-space-separated tokens makes parseClassSubstitutionRules fail at
\* load time: no rule table is in force and processFile runs for no file.
C9_MalformedRuleFails ==
    (lpc # "start" /\ Malformed(rulefile)) =>
        (lpc = "failed" /\ table = <<>> /\ nprocessed = 0)

---------------------------------------------------------------------------
(* Specification SpecWalk: processDir (both scripts) on a directory tree   *)

MaxDepth == 2
MaxIgnore == 2

DirNames == <<"a", "b">>

IgnoreNames == {"a", "c"}

\* os.listdir gives every directory these files
FileNames == << <<"m", ".", "j">>, <<"n", ".", "t">> >>

\* args.ext
Extensions == << <<".", "j">>, <<"j">> >>

Range(seq) == {seq[i] : i \in 1..Len(seq)}

AllDirs == UNION {[1..n -> Range(DirNames)] : n \in 1..MaxDepth}

Trees ==
    {t \in SUBSET AllDirs :
        \A d \in t : Len(d) > 1 => SubSeq(d, 1, Len(d) - 1) \in t}

fnmatch(fname, extensions) ==
    \E k \in 1..Len(extensions) : endswith(fname, extensions[k])

\* subdirList of directory d, as os.walk hands it out
SubdirList(t, d) == SelectSeq(DirNames, LAMBDA n : (d \o <<n>>) \in t)

\* subdirList.index(ignore), 1-based; 0 stands for ValueError
ListIndex(list, x) ==
    IF x \in Range(list) THEN SetMin({i \in 1..Len(list) : list[i] = x}) ELSE 0

\* del subdirList[index]
ListDel(list, index) ==
    SubSeq(list, 1, index - 1) \o SubSeq(list, index + 1, Len(list))

\* the loop over args.ignore of script 1
RECURSIVE Prune1(_, _)
Prune1(subdirList, ignores) ==
    IF ignores = <<>> THEN subdirList
    ELSE Prune1(IF Head(ignores) \in Range(subdirList)
                THEN ListDel(subdirList, ListIndex(subdirList, Head(ignores)))
                ELSE subdirList,
                Tail(ignores))

\* the loop over args.ignore of script 2: the list, or the string
\* "ValueError" when subdirList.index(ignore) raises
RECURSIVE Prune2(_, _)
Prune2(subdirList, ignores) ==
    IF ignores = <<>> THEN subdirList
    ELSE IF ListIndex(subdirList, Head(ignores)) = 0 THEN "ValueError"
    ELSE Prune2(ListDel(subdirList, ListIndex(subdirList, Head(ignores))),
                Tail(ignores))

Prune(sc, subdirList, ignores) ==
    IF sc = 1 THEN Prune1(subdirList, ignores) ELSE Prune2(subdirList, ignores)

\* the processFile calls of the loop over fileList in directory d
FileCalls(d) ==
    LET matching == SelectSeq(FileNames, LAMBDA fname : fnmatch(fname, Extensions))
    IN  [k \in 1..Len(matching) |-> <<d, matching[k]>>]

StartWalk ==
    /\ wscript \in {1, 2}
    /\ ignore \in UNION {[1..n -> IgnoreNames] : n \in 0..MaxIgnore}
    /\ tree \in Trees
    /\ pending = << <<>> >>
    /\ calls = <<>>
    /\ wpc = "walking"

InitWalk == StartWalk /\ keyorder = <<>> /\ IdleLines /\ IdleSub /\ IdleFile /\ IdleLoad

\* one round of  for dirName, subdirList, fileList in os.walk(rootDir)
VisitDir ==
    /\ wpc = "walking" /\ pending # <<>>
    /\ LET d      == Head(pending)
           pruned == Prune(wscript, SubdirList(tree, d), ignore)
       IN  /\ calls' = calls \o FileCalls(d)
           /\ IF pruned = "ValueError"
              THEN wpc' = "error" /\ pending' = <<>>
              ELSE /\ pending' = [k \in 1..Len(pruned) |-> d \o <<pruned[k]>>]
                                 \o Tail(pending)
                   /\ wpc' = IF pending' = <<>> THEN "done" ELSE "walking"
    /\ UNCHANGED <<wscript, ignore, tree>>
    /\ UNCHANGED <<keyorder, varsLines, varsSub, varsFile, varsLoad>>

NextWalk == VisitDir

SpecWalk == InitWalk /\ [][NextWalk]_vars

\* the files processFile is to be called on: the extension matches and no
\* directory between the root and the file is ignored
ExpectedCalls ==
    {<<d, FileNames[k]>> : d \in tree \cup {<<>>}, k \in 1..Len(FileNames)}
    \cap {c \in (tree \cup {<<>>}) \X Range(FileNames) :
             /\ \E e \in 1..Len(Extensions) : endswith(c[2], Extensions[e])
             /\ \A i \in 1..Len(c[1]) : c[1][i] \notin Range(ignore)}

\* C10: for every tree and every ignore list processDir ends without error
\* and has called processFile exactly once on each file whose name ends with
\* a configured extension and that lies under no ignored directory, and on
\* no other file.  For both scripts.
C10_WalkHonoursIgnore ==
    /\ wpc # "error"
    /\ wpc = "done" =>
          /\ \A c \in ExpectedCalls :
                Cardinality({i \in 1..Len(calls) : calls[i] = c}) = 1
          /\ \A i \in 1..Len(calls) : calls[i] \in ExpectedCalls

====
